---- MODULE Spec2Model ----
(***************************************************************************)
(* Model of frontend/main.js of the scripture wallpaper generator.         *)
(*                                                                         *)
(* Five specifications:                                                    *)
(*   Spec      the CanvasWallpaperEditor: its controls, the verse it       *)
(*             holds, the 2D context's font, what renderCanvas drew, and   *)
(*             fetchVerse;                                                 *)
(*   SpecAsync the editor's asynchronous calls: fetchVerse and             *)
(*             fetchAndDownload suspended at their awaits, the deferred    *)
(*             download and its toBlob callback, resetCanvas and the       *)
(*             font-size slider;                                           *)
(*   SpecDownload  the same calls with the line-spacing slider too and     *)
(*             with the history of which response each deferred download   *)
(*             belongs to;                                                 *)
(*   SpecGen   the ScriptureWallpaperGenerator: its three numeric fields,  *)
(*             updatePreview and the request built by fetchWallpaper;      *)
(*   SpecWrap  wrapText as a function of (text, maxWidth, font).           *)
(*                                                                         *)
(* Units.  Text is a sequence of one-character strings.  Font sizes and    *)
(* boundaries are whole pixels.  Measured widths, heights and Y positions  *)
(* are in TENTHS of a pixel, line spacing in tenths (14 is 1.4), and       *)
(* percentages in TENTHS of a percent (380 is 38%), so that the code's     *)
(* real-valued arithmetic is exact integer arithmetic here.  JavaScript's  *)
(* NaN/undefined is the empty set and a number n is the set {n}.  Binary   *)
(* floating-point rounding error is not modelled: on every height and      *)
(* percentage drawn here the doubles of the code round to the same pixel   *)
(* as the exact values.                                                    *)
(*                                                                         *)
(* The page's markup is not part of the sources.  The controls start at    *)
(* the values resetCanvas restores, the three fields at the defaults of    *)
(* updatePreview, and the font slider's min and max are unknown (NaN)      *)
(* until fetchVerse sets them.  An input element stores what the code      *)
(* assigns to it.                                                          *)
(***************************************************************************)
EXTENDS Integers, Sequences, FiniteSets, TLC

VARIABLES
    currentVerse,         \* CanvasWallpaperEditor.currentVerse
    currentReference,     \* CanvasWallpaperEditor.currentReference
    controls,             \* values of the editor's boundary/font/spacing inputs
    ctxFont,              \* font size of this.ctx.font
    canvas,               \* what the last renderCanvas call computed and drew
    rerender,             \* history: the last renderCanvas call read what the one before read
    pending,              \* fetchVerse calls suspended at each of their two awaits
    downloadCall,         \* position of the fetchAndDownload call: "idle", "fetch", "json"
    timers,               \* setTimeout callbacks of fetchAndDownload not yet run
    blobs,                \* what canvas.toBlob captured, for each callback not yet run, oldest first
    saved,                \* what the last step gave the user: a file, an alert, or nothing
    overlapped,           \* history: the last step handled a response while another call was suspended
    sinceReset,           \* history: resetCanvas has run and no user event has followed it
    fetched,              \* history: the response of each fetchAndDownload call whose download is not finished
    savedFor,             \* history: the response of the call whose download the last step finished
    fields,               \* generator: text of the three numeric fields
    phoneBackgroundImage, \* generator: state of the background Image
    preview,              \* generator: what the last updatePreview showed
    request,              \* generator: parameters of the last fetchWallpaper
    wrapIn,               \* wrapText harness: the call's arguments
    wrapOut               \* wrapText harness: the call's result

editorVars == <<currentVerse, currentReference, controls, ctxFont, canvas, rerender, pending,
                downloadCall, timers, blobs, saved, overlapped, sinceReset, fetched, savedFor>>
genVars    == <<fields, phoneBackgroundImage, preview, request>>
wrapVars   == <<wrapIn, wrapOut>>
vars       == <<currentVerse, currentReference, controls, ctxFont, canvas, rerender, pending,
                downloadCall, timers, blobs, saved, overlapped, sinceReset, fetched, savedFor,
                fields, phoneBackgroundImage, preview, request, wrapIn, wrapOut>>

----------------------------------------------------------------------------
(* JavaScript numbers that may be NaN / undefined *)

NaN == {}
Num(n) == {n}
IsNum(x) == x # {}
Val(x) == CHOOSE n \in x : TRUE
Plus(x, y) == IF IsNum(x) /\ IsNum(y) THEN Num(Val(x) + Val(y)) ELSE NaN

\* Math.round of the rational n/d (d > 0): halves go up
round(n, d) == (2 * n + d) \div (2 * d)

----------------------------------------------------------------------------
(* Program constants *)

actualWidth     == 1080
actualHeight    == 2340
minFontSize     == 20
fontStep        == 2
boundaryMargin  == 40
margin          == 80
spaceBetween    == 40
placeholderFont == 48

(* Bounds of the model *)

MaxInFlight == 1
MaxTimers   == 1
MaxLen      == 5

----------------------------------------------------------------------------
(* Metrics of the 2D context: measureText at a font size.  The advance of  *)
(* a character is proportional to the font size; canvas text rendering     *)
(* treats every whitespace character as a space.                           *)

\* advance of one character, in tenths of an em
advance(c) == CASE c = "W" -> 9
                [] c = "a" -> 5
                [] OTHER   -> 3

RECURSIVE unitsOf(_)
unitsOf(s) == IF s = <<>> THEN 0 ELSE advance(Head(s)) + unitsOf(Tail(s))

\* ctx.measureText(s).width at font size `font`, in tenths of a pixel
measureText(s, font) == unitsOf(s) * font

\* actualBoundingBoxAscent + actualBoundingBoxDescent of 'Ag', in tenths of a pixel
measureAg(font) == 10 * font

----------------------------------------------------------------------------
(* wrapText *)

RECURSIVE splitFrom(_, _, _)
splitFrom(text, i, word) ==
    IF i > Len(text) THEN <<word>>
    ELSE IF text[i] = " " THEN <<word>> \o splitFrom(text, i + 1, <<>>)
    ELSE splitFrom(text, i + 1, Append(word, text[i]))

\* text.split(' ')
split(text) == splitFrom(text, 1, <<>>)

\* a wrapText that measures the line it has, not the line with the next word
RECURSIVE wrapLoop_measuresCurrentLine(_, _, _, _, _, _)
wrapLoop_measuresCurrentLine(words, i, currentLine, lines, maxWidth, font) ==
    IF i > Len(words)
    THEN IF currentLine # <<>> THEN Append(lines, currentLine) ELSE lines
    ELSE LET word     == words[i]
             testLine == currentLine \o (IF currentLine # <<>> THEN <<" ">> ELSE <<>>) \o word
         IN  IF measureText(currentLine, font) > 10 * maxWidth /\ currentLine # <<>>
             THEN wrapLoop_measuresCurrentLine(words, i + 1, word, Append(lines, currentLine),
                                               maxWidth, font)
             ELSE wrapLoop_measuresCurrentLine(words, i + 1, testLine, lines, maxWidth, font)

\* a wrapText that also breaks when the line with the next word is exactly maxWidth wide
RECURSIVE wrapLoop_breaksOnEqual(_, _, _, _, _, _)
wrapLoop_breaksOnEqual(words, i, currentLine, lines, maxWidth, font) ==
    IF i > Len(words)
    THEN IF currentLine # <<>> THEN Append(lines, currentLine) ELSE lines
    ELSE LET word     == words[i]
             testLine == currentLine \o (IF currentLine # <<>> THEN <<" ">> ELSE <<>>) \o word
         IN  IF measureText(testLine, font) >= 10 * maxWidth /\ currentLine # <<>>
             THEN wrapLoop_breaksOnEqual(words, i + 1, word, Append(lines, currentLine),
                                         maxWidth, font)
             ELSE wrapLoop_breaksOnEqual(words, i + 1, testLine, lines, maxWidth, font)

RECURSIVE wrapLoop(_, _, _, _, _, _)
wrapLoop(words, i, currentLine, lines, maxWidth, font) ==
    IF i > Len(words)
    THEN IF currentLine # <<>> THEN Append(lines, currentLine) ELSE lines
    ELSE LET word     == words[i]
             testLine == currentLine \o (IF currentLine # <<>> THEN <<" ">> ELSE <<>>) \o word
         IN  IF measureText(testLine, font) > 10 * maxWidth /\ currentLine # <<>>
             THEN wrapLoop(words, i + 1, word, Append(lines, currentLine), maxWidth, font)
             ELSE wrapLoop(words, i + 1, testLine, lines, maxWidth, font)

\* this.wrapText(text, maxWidth) with this.ctx.font at size `font`
wrapText(text, maxWidth, font) == wrapLoop(split(text), 1, <<>>, <<>>, maxWidth, font)

----------------------------------------------------------------------------
(* renderCanvas *)

\* a top boundary rounded up instead of to the nearest pixel
topBoundaryOf_ceil(canvasHeight, topBoundaryPercent) ==
    -((-(canvasHeight * topBoundaryPercent)) \div 1000)

\* Math.round(canvasHeight * (topBoundaryPercent / 100)), percent in tenths
topBoundaryOf(canvasHeight, topBoundaryPercent) ==
    round(canvasHeight * topBoundaryPercent, 1000)

\* a bottom boundary that rounds the share below the band and subtracts it
bottomBoundaryOf_subtractsRounded(canvasHeight, bottomBoundaryPercent) ==
    canvasHeight - round(canvasHeight * bottomBoundaryPercent, 1000)

\* Math.round(canvasHeight * ((100 - bottomBoundaryPercent) / 100)), percent in tenths
bottomBoundaryOf(canvasHeight, bottomBoundaryPercent) ==
    round(canvasHeight * (1000 - bottomBoundaryPercent), 1000)

\* text properties that leave ctx.font as the previous call left it
setTextProperties_stale(font, currentFontSize) == font

\* ctx.font after the text properties are set to the slider's size
setTextProperties(font, currentFontSize) == currentFontSize

\* verse height: the spacing multiplier counts between lines only (tenths of a pixel)
verseHeightOf(actualLineHeight, n, lineSpacing) ==
    actualLineHeight * n
      + (IF n > 1 THEN (actualLineHeight * (lineSpacing - 10) * (n - 1)) \div 10 ELSE 0)

\* a reduction that skips every other candidate
reduce_byFour(currentFontSize) == currentFontSize - 2 * fontStep

\* a reduction by one pixel
reduce_byOne(currentFontSize) == currentFontSize - 1

\* the next candidate size
reduce(currentFontSize) == currentFontSize - fontStep

\* the loop's exit test
fits(totalContentHeight, availableHeight) == totalContentHeight <= 10 * availableHeight

\* one pass through the loop body up to its exit test: the locals after it
iteration(s, font, lines, lineSpacing) ==
    [s EXCEPT !.actualLineHeight   = Num(measureAg(font)),
              !.lines              = lines,
              !.wrappedAt          = font,
              !.referenceFontSize  = Num(font),
              !.referenceHeight    = Num(measureAg(font)),
              !.totalContentHeight = Num(verseHeightOf(measureAg(font), Len(lines), lineSpacing)
                                           + 10 * spaceBetween + measureAg(font)),
              !.ctxFont            = font,
              !.iterations         = s.iterations + 1]

\* The loop `while (currentFontSize > 20)`.  s holds the locals that live
\* across iterations; s.fit records that the loop was left by its break.
RECURSIVE shrink(_, _, _, _)
RECURSIVE exitTest(_, _, _, _)
shrink(s, verse, maxWidth, env) ==
    IF ~(s.currentFontSize > minFontSize) THEN s
    ELSE exitTest(iteration(s, s.currentFontSize,
                            wrapText(verse, maxWidth, s.currentFontSize), env.lineSpacing),
                  verse, maxWidth, env)

exitTest(t, verse, maxWidth, env) ==
    IF fits(Val(t.totalContentHeight), env.availableHeight)
    THEN [t EXCEPT !.fit = TRUE]
    ELSE shrink([t EXCEPT !.currentFontSize = reduce(t.currentFontSize)],
                verse, maxWidth, env)

\* an advance that adds the extra spacing only, without the line height
advanceY_spacingOnly(actualLineHeight, lineSpacing, index, n) ==
    IF ~IsNum(actualLineHeight) THEN NaN
    ELSE IF index < n
         THEN Num((Val(actualLineHeight) * (lineSpacing - 10)) \div 10)
         ELSE Num(Val(actualLineHeight))

\* an advance that leaves the multiplier out of the step onto the last line
advanceY_lastStepPlain(actualLineHeight, lineSpacing, index, n) ==
    IF ~IsNum(actualLineHeight) THEN NaN
    ELSE IF index < n - 1
         THEN Num(Val(actualLineHeight) + (Val(actualLineHeight) * (lineSpacing - 10)) \div 10)
         ELSE Num(Val(actualLineHeight))

\* the Y advance after line `index` of n lines (tenths of a pixel)
advanceY(actualLineHeight, lineSpacing, index, n) ==
    IF ~IsNum(actualLineHeight) THEN NaN
    ELSE IF index < n
         THEN Num(Val(actualLineHeight) + (Val(actualLineHeight) * (lineSpacing - 10)) \div 10)
         ELSE Num(Val(actualLineHeight))

\* the forEach over the lines: <<Y of each line, currentY after the last>>
RECURSIVE drawLines(_, _, _, _, _)
drawLines(n, index, currentY, actualLineHeight, lineSpacing) ==
    IF index > n THEN [ys |-> <<>>, currentY |-> currentY]
    ELSE LET rest == drawLines(n, index + 1,
                               Plus(currentY, advanceY(actualLineHeight, lineSpacing, index, n)),
                               actualLineHeight, lineSpacing)
         IN  [ys |-> <<currentY>> \o rest.ys, currentY |-> rest.currentY]

\* a start that puts all the free height above the block
startYOf_notHalved(textAreaTop, availableHeight, totalContentHeight) ==
    IF ~IsNum(totalContentHeight) THEN NaN
    ELSE Num(10 * (textAreaTop + ((10 * availableHeight - Val(totalContentHeight)) \div 10)))

\* startY = textAreaTop + Math.floor((availableHeight - totalContentHeight) / 2)
startYOf(textAreaTop, availableHeight, totalContentHeight) ==
    IF ~IsNum(totalContentHeight) THEN NaN
    ELSE Num(10 * (textAreaTop + ((10 * availableHeight - Val(totalContentHeight)) \div 20)))

\* the drawing of the verse and the reference after the loop
draw(s, req, band, lineSpacing, reference) ==
    LET startY == startYOf(band.textAreaTop, band.availableHeight, s.totalContentHeight)
        d      == drawLines(Len(s.lines), 1, startY, s.actualLineHeight, lineSpacing)
        refDrawn == reference # ""
    IN  [canvas |-> [kind |-> "verse", req |-> req, fontSize |-> s.currentFontSize,
                     lines |-> s.lines, wrappedAt |-> s.wrappedAt, ys |-> d.ys,
                     verseEndY |-> d.currentY, referenceHeight |-> s.referenceHeight,
                     referenceDrawn |-> refDrawn,
                     referenceY |-> IF refDrawn THEN Plus(d.currentY, Num(10 * spaceBetween))
                                    ELSE NaN,
                     referenceFontSize |-> s.referenceFontSize,
                     topBoundary |-> band.topBoundary, bottomBoundary |-> band.bottomBoundary,
                     availableHeight |-> band.availableHeight,
                     totalContentHeight |-> s.totalContentHeight,
                     actualLineHeight |-> s.actualLineHeight, startY |-> startY,
                     fit |-> s.fit, iterations |-> s.iterations],
         \* an invalid font string (undefined size) leaves ctx.font as it was
         ctxFont |-> IF refDrawn /\ IsNum(s.referenceFontSize)
                     THEN Val(s.referenceFontSize) ELSE s.currentFontSize]

\* what the call returns to the model: the record of what was drawn, and ctx.font
renderCanvas(verse, reference, ctl, font0) ==
    LET req == [verse |-> verse, reference |-> reference,
                topBoundary |-> ctl.topBoundary, bottomBoundary |-> ctl.bottomBoundary,
                fontSize |-> ctl.fontSize, lineSpacing |-> ctl.lineSpacing]
    IN
    IF verse = <<>>
    THEN [canvas |-> [kind |-> "placeholder", req |-> req, fontSize |-> placeholderFont,
                      lines |-> <<>>, wrappedAt |-> placeholderFont, ys |-> <<>>,
                      verseEndY |-> NaN, referenceHeight |-> NaN,
                      referenceDrawn |-> FALSE, referenceY |-> NaN, referenceFontSize |-> NaN,
                      topBoundary |-> 0, bottomBoundary |-> 0, availableHeight |-> 0,
                      totalContentHeight |-> NaN, actualLineHeight |-> NaN, startY |-> NaN,
                      fit |-> FALSE, iterations |-> 0],
          ctxFont |-> placeholderFont]
    ELSE
    LET canvasWidth     == actualWidth
        canvasHeight    == actualHeight
        initial         == ctl.fontSize
        topBoundary     == topBoundaryOf(canvasHeight, ctl.topBoundary)
        bottomBoundary  == bottomBoundaryOf(canvasHeight, ctl.bottomBoundary)
        textAreaTop     == topBoundary + boundaryMargin
        textAreaBottom  == bottomBoundary - boundaryMargin
        availableHeight == textAreaBottom - textAreaTop
        font1           == setTextProperties(font0, initial)
        maxWidth        == canvasWidth - margin * 2
        s0 == [currentFontSize |-> initial,
               lines |-> wrapText(verse, maxWidth, font1), wrappedAt |-> font1,
               totalContentHeight |-> NaN, actualLineHeight |-> NaN,
               referenceHeight |-> NaN, referenceFontSize |-> NaN,
               ctxFont |-> font1, fit |-> FALSE, iterations |-> 0]
    IN  draw(shrink(s0, verse, maxWidth,
                    [lineSpacing |-> ctl.lineSpacing, availableHeight |-> availableHeight]),
             req,
             [topBoundary |-> topBoundary, bottomBoundary |-> bottomBoundary,
              textAreaTop |-> textAreaTop, availableHeight |-> availableHeight],
             ctl.lineSpacing, reference)

----------------------------------------------------------------------------
(* Inputs of the editor: what the user can set and what the server can     *)
(* answer.                                                                 *)

VerseA == <<"W","W","W","W","W","W"," ","W","W","W","W","W","W"," ",
            "W","W","W","W","W","W"," ","a","a","a","a">>
VerseB == <<"W","W","W","W","W","W","W","W"," ",
            "W","W","W","W","W","W","W","W"," ",
            "W","W","W","W","W","W","W","W">>
VerseC == <<"W","W"," "," ","a","\n","W">>

Responses == { [text |-> VerseA, reference |-> "Psalm 1:3"],
               [text |-> VerseB, reference |-> "John 11:35"],
               [text |-> VerseC, reference |-> ""] }

\* data.optimal_font_size; 0 stands for a response that carries none
Hints == {0, 8, 21}

TopChoices         == {380, 480, 500}
BottomChoices      == {310, 450, 500}
FontChoices        == {20, 21, 54, 64}
LineSpacingChoices == {10, 14}

\* the controls as the page's markup sets them: the values resetCanvas
\* restores; the font slider's min and max are those of the markup (NaN here)
defaultControls ==
    [topBoundary |-> 380, bottomBoundary |-> 310, fontSize |-> 64,
     fontSizeMin |-> NaN, fontSizeMax |-> NaN, lineSpacing |-> 14]

inRange(ctl, v) ==
    /\ (IsNum(ctl.fontSizeMin) => Val(ctl.fontSizeMin) <= v)
    /\ (IsNum(ctl.fontSizeMax) => v <= Val(ctl.fontSizeMax))

----------------------------------------------------------------------------
(* The CanvasWallpaperEditor *)

\* every handler ends in this.renderCanvas(), which reads the object's state
Render(verse, reference, ctl) ==
    \E r \in {renderCanvas(verse, reference, ctl, ctxFont)} :
        /\ canvas'  = r.canvas
        /\ ctxFont' = r.ctxFont
        /\ rerender' = (r.canvas.req = canvas.req)

\* what a downloaded image shows: the verse and the reference that the
\* render it captures drew
imageOf(c) == [verse |-> c.req.verse, reference |-> c.req.reference]

noImage == [verse |-> <<>>, reference |-> ""]

\* `scripture-wallpaper-${reference.replace(/[^a-zA-Z0-9]/g, '-')}.png`
fileNameOf(reference) ==
    CASE reference = "Psalm 1:3"  -> "scripture-wallpaper-Psalm-1-3.png"
      [] reference = "John 11:35" -> "scripture-wallpaper-John-11-35.png"
      [] reference = ""           -> "scripture-wallpaper-.png"

\* no file was saved and no alert shown
noDownload == [outcome |-> "none", name |-> "", image |-> noImage]

\* no response
noData == [text |-> <<>>, reference |-> ""]

\* new CanvasWallpaperEditor(): a fresh context has a 10px font
InitEditor ==
    /\ currentVerse = <<>>
    /\ currentReference = ""
    /\ controls = defaultControls
    /\ canvas  = renderCanvas(<<>>, "", defaultControls, 10).canvas
    /\ ctxFont = renderCanvas(<<>>, "", defaultControls, 10).ctxFont
    /\ rerender = FALSE
    /\ pending = [fetch |-> 0, json |-> 0]
    /\ downloadCall = "idle"
    /\ timers = 0
    /\ blobs = <<>>
    /\ saved = noDownload
    /\ overlapped = FALSE
    /\ sinceReset = FALSE
    /\ fetched = <<>>
    /\ savedFor = noData

\* the calls in flight, which the synchronous handlers leave alone
callVars == <<pending, downloadCall, timers, blobs>>

TopBoundaryInput ==
    \E v \in TopChoices :
        /\ v # controls.topBoundary
        /\ controls' = [controls EXCEPT !.topBoundary = v]
        /\ Render(currentVerse, currentReference, controls')
        /\ saved' = noDownload
        /\ overlapped' = FALSE
        /\ sinceReset' = FALSE
        /\ UNCHANGED <<currentVerse, currentReference, callVars>>

BottomBoundaryInput ==
    \E v \in BottomChoices :
        /\ v # controls.bottomBoundary
        /\ controls' = [controls EXCEPT !.bottomBoundary = v]
        /\ Render(currentVerse, currentReference, controls')
        /\ saved' = noDownload
        /\ overlapped' = FALSE
        /\ sinceReset' = FALSE
        /\ UNCHANGED <<currentVerse, currentReference, callVars>>

FontSizeInput ==
    \E v \in FontChoices :
        /\ v # controls.fontSize
        /\ inRange(controls, v)
        /\ controls' = [controls EXCEPT !.fontSize = v]
        /\ Render(currentVerse, currentReference, controls')
        /\ saved' = noDownload
        /\ overlapped' = FALSE
        /\ sinceReset' = FALSE
        /\ UNCHANGED <<currentVerse, currentReference, callVars>>

LineSpacingInput ==
    \E v \in LineSpacingChoices :
        /\ v # controls.lineSpacing
        /\ controls' = [controls EXCEPT !.lineSpacing = v]
        /\ Render(currentVerse, currentReference, controls')
        /\ saved' = noDownload
        /\ overlapped' = FALSE
        /\ sinceReset' = FALSE
        /\ UNCHANGED <<currentVerse, currentReference, callVars>>

\* the fetchVerse calls suspended at either await
inFlight == pending.fetch + pending.json

\* fetchVerse up to `await fetch(url)`; the Enter key starts a call whatever
\* the state of the fetch button
FetchVerseStart ==
    /\ inFlight < MaxInFlight
    /\ pending' = [pending EXCEPT !.fetch = @ + 1]
    /\ saved' = noDownload
    /\ overlapped' = FALSE
    /\ sinceReset' = FALSE
    /\ UNCHANGED <<currentVerse, currentReference, controls, ctxFont, canvas, rerender,
                   downloadCall, timers, blobs>>

\* fetchVerse from `await fetch(url)` to `await response.json()`: the response is ok
FetchVerseResponse ==
    /\ pending.fetch > 0
    /\ pending' = [fetch |-> pending.fetch - 1, json |-> pending.json + 1]
    /\ saved' = noDownload
    /\ overlapped' = FALSE
    /\ UNCHANGED <<currentVerse, currentReference, controls, ctxFont, canvas, rerender,
                   downloadCall, timers, blobs, sinceReset>>

\* a handler that stores the verse of the response and leaves the reference
storeResponse_verseOnly(data) ==
    [currentVerse |-> data.text, currentReference |-> currentReference]

\* this.currentVerse = data.text; this.currentReference = data.reference
storeResponse(data) ==
    [currentVerse |-> data.text, currentReference |-> data.reference]

\* the slider after a response with data.optimal_font_size
seedSlider(ctl, optimalSize) ==
    IF optimalSize = 0 THEN ctl
    ELSE [ctl EXCEPT !.fontSizeMin = Num(IF round(optimalSize, 2) > 20
                                         THEN round(optimalSize, 2) ELSE 20),
                     !.fontSizeMax = Num(round(optimalSize * 2, 1)),
                     !.fontSize    = optimalSize]

\* fetchVerse from `await response.json()` to its end
FetchVerseOk ==
    /\ pending.json > 0
    /\ \E data \in Responses, optimalSize \in Hints :
        /\ currentVerse' = storeResponse(data).currentVerse
        /\ currentReference' = storeResponse(data).currentReference
        /\ controls' = seedSlider(controls, optimalSize)
        /\ Render(currentVerse', currentReference', controls')
    /\ pending' = [pending EXCEPT !.json = @ - 1]
    /\ saved' = noDownload
    /\ overlapped' = (pending'.fetch + pending'.json > 0 \/ downloadCall # "idle")
    /\ UNCHANGED <<downloadCall, timers, blobs, sinceReset>>

\* fetchVerse from either await to its end through the catch: the fetch is
\* rejected or the response is not ok, or the body is not JSON
FetchVerseFail ==
    /\ \/ pending.fetch > 0 /\ pending' = [pending EXCEPT !.fetch = @ - 1]
       \/ pending.json > 0  /\ pending' = [pending EXCEPT !.json = @ - 1]
    /\ saved' = noDownload
    /\ overlapped' = FALSE
    /\ UNCHANGED <<currentVerse, currentReference, controls, ctxFont, canvas, rerender,
                   downloadCall, timers, blobs, sinceReset>>

\* fetchAndDownload up to `await fetch(url)`; its only trigger is the button,
\* which the call disables until its end
FetchAndDownloadStart ==
    /\ downloadCall = "idle"
    /\ downloadCall' = "fetch"
    /\ saved' = noDownload
    /\ overlapped' = FALSE
    /\ sinceReset' = FALSE
    /\ UNCHANGED <<currentVerse, currentReference, controls, ctxFont, canvas, rerender,
                   pending, timers, blobs>>

\* fetchAndDownload from `await fetch(url)` to `await response.json()`
FetchAndDownloadResponse ==
    /\ downloadCall = "fetch"
    /\ downloadCall' = "json"
    /\ saved' = noDownload
    /\ overlapped' = FALSE
    /\ UNCHANGED <<currentVerse, currentReference, controls, ctxFont, canvas, rerender,
                   pending, timers, blobs, sinceReset>>

\* fetchAndDownload from `await response.json()` to its end: the render,
\* then the download deferred by setTimeout
FetchAndDownloadOk ==
    /\ downloadCall = "json"
    /\ timers + Len(blobs) < MaxTimers
    /\ \E data \in Responses, optimalSize \in Hints :
        /\ currentVerse' = storeResponse(data).currentVerse
        /\ currentReference' = storeResponse(data).currentReference
        /\ controls' = seedSlider(controls, optimalSize)
        /\ Render(currentVerse', currentReference', controls')
    /\ timers' = timers + 1
    /\ downloadCall' = "idle"
    /\ saved' = noDownload
    /\ overlapped' = (inFlight > 0)
    /\ UNCHANGED <<pending, blobs, sinceReset>>

\* fetchAndDownload from either await to its end through the catch
FetchAndDownloadFail ==
    /\ downloadCall \in {"fetch", "json"}
    /\ downloadCall' = "idle"
    /\ saved' = noDownload
    /\ overlapped' = FALSE
    /\ UNCHANGED <<currentVerse, currentReference, controls, ctxFont, canvas, rerender,
                   pending, timers, blobs, sinceReset>>

\* the setTimeout callback: downloadCanvasWithReadyCheck, then downloadCanvas.
\* Without a verse it alerts and returns.  Every renderCanvas call, the
\* constructor's included, fills the whole canvas with opaque black, so the
\* readiness check finds content and the requestAnimationFrame retry is not
\* taken.  canvas.toBlob captures the canvas as it is now; its callback
\* runs later.
DownloadTimer ==
    /\ timers > 0
    /\ timers' = timers - 1
    /\ IF currentVerse = <<>>
       THEN /\ saved' = [outcome |-> "alert", name |-> "", image |-> noImage]
            /\ blobs' = blobs
       ELSE /\ blobs' = Append(blobs, imageOf(canvas))
            /\ saved' = noDownload
    /\ overlapped' = FALSE
    /\ UNCHANGED <<currentVerse, currentReference, controls, ctxFont, canvas, rerender,
                   pending, downloadCall, sinceReset>>

\* the callback of canvas.toBlob: the file is named after the reference the
\* editor holds now and its content is the captured canvas
ToBlobCallback ==
    /\ blobs # <<>>
    /\ blobs' = Tail(blobs)
    /\ saved' = [outcome |-> "file", name |-> fileNameOf(currentReference),
                 image |-> Head(blobs)]
    /\ overlapped' = FALSE
    /\ UNCHANGED <<currentVerse, currentReference, controls, ctxFont, canvas, rerender,
                   pending, downloadCall, timers, sinceReset>>

resetCanvas ==
    /\ controls' = [controls EXCEPT !.topBoundary = 380, !.bottomBoundary = 310,
                                    !.fontSize = 64, !.lineSpacing = 14]
    /\ currentVerse' = <<>>
    /\ currentReference' = ""
    /\ Render(currentVerse', currentReference', controls')
    /\ saved' = noDownload
    /\ overlapped' = FALSE
    /\ sinceReset' = TRUE
    /\ UNCHANGED callVars

----------------------------------------------------------------------------
(* The ScriptureWallpaperGenerator *)

\* what the user can type into the percent fields and the height field
PercentTexts == {"", "0", "2.5", "31", "150"}
HeightTexts  == {"", "1000", "2340"}

\* parseFloat of a percent field, in tenths of a percent
parseFloat(text) ==
    CASE text = "0"   -> Num(0)
      [] text = "31"  -> Num(310)
      [] text = "38"  -> Num(380)
      [] text = "2.5" -> Num(25)
      [] text = "150" -> Num(1500)
      [] OTHER        -> NaN

\* parseInt of the height field
parseInt(text) ==
    CASE text = "1000" -> Num(1000)
      [] text = "2340" -> Num(2340)
      [] OTHER         -> NaN

\* x || fallback for a number x: NaN and 0 are falsy
orDefault(x, fallback) == IF IsNum(x) /\ Val(x) # 0 THEN Val(x) ELSE fallback

\* what the preview canvas holds after updatePreview has resized it and
\* called drawImage: an image still loading is not drawn, a broken one makes
\* drawImage throw before the band and the text are drawn
frameOf(image) ==
    CASE image = "loaded"  -> "background, band, text"
      [] image = "loading" -> "band, text"
      [] OTHER             -> "blank"

\* the band of updatePreview and the text it shows (Math.round of each value)
updatePreview(f, image) ==
    LET topPercentValue    == orDefault(parseFloat(f.topPercent), 310)
        bottomPercentValue == orDefault(parseFloat(f.bottomPercent), 380)
        screenHeight       == orDefault(parseInt(f.screenHeight), 2340)
    IN  [shown |-> TRUE,
         topPercentValue |-> topPercentValue,
         bottomPercentValue |-> bottomPercentValue,
         screenHeight |-> screenHeight,
         \* Math.round(topBoundaryPx), Math.round(bottomBoundaryPx), Math.round(textAreaHeight)
         topText    |-> round(topPercentValue * screenHeight, 1000),
         bottomText |-> round(1000 * screenHeight - bottomPercentValue * screenHeight, 1000),
         heightText |-> round(1000 * screenHeight - bottomPercentValue * screenHeight
                                - topPercentValue * screenHeight, 1000),
         background |-> image,
         frame |-> frameOf(image)]

noPreview ==
    [shown |-> FALSE, topPercentValue |-> 0, bottomPercentValue |-> 0, screenHeight |-> 0,
     topText |-> 0, bottomText |-> 0, heightText |-> 0, background |-> "loading",
     frame |-> "blank"]

\* the query parameters fetchWallpaper builds from the fields
fetchWallpaperParams(f) ==
    LET screenHeight  == parseInt(f.screenHeight)
        topPercent    == parseFloat(f.topPercent)
        bottomPercent == parseFloat(f.bottomPercent)
    IN  [sent |-> TRUE, fields |-> f,
         screen_height |-> screenHeight,
         top_boundary_percent |-> topPercent,
         bottom_boundary_percent |-> bottomPercent,
         top_boundary |-> IF IsNum(screenHeight) /\ IsNum(topPercent)
                          THEN Num(topBoundaryOf(Val(screenHeight), Val(topPercent)))
                          ELSE NaN,
         bottom_boundary |-> IF IsNum(screenHeight) /\ IsNum(bottomPercent)
                             THEN Num(bottomBoundaryOf(Val(screenHeight), Val(bottomPercent)))
                             ELSE NaN]

defaultFields == [screenHeight |-> "2340", topPercent |-> "31", bottomPercent |-> "38"]

noRequest ==
    [sent |-> FALSE, fields |-> defaultFields, screen_height |-> NaN,
     top_boundary_percent |-> NaN, bottom_boundary_percent |-> NaN,
     top_boundary |-> NaN, bottom_boundary |-> NaN]

\* new ScriptureWallpaperGenerator(): the Image is created and its load started
InitGen ==
    /\ fields = defaultFields
    /\ phoneBackgroundImage = "loading"
    /\ preview = noPreview
    /\ request = noRequest

\* phoneBackgroundImage.onload
ImageOnload ==
    /\ phoneBackgroundImage = "loading"
    /\ phoneBackgroundImage' = "loaded"
    /\ preview' = updatePreview(fields, "loaded")
    /\ UNCHANGED <<fields, request>>

\* phoneBackgroundImage.onerror
ImageOnerror ==
    /\ phoneBackgroundImage = "loading"
    /\ phoneBackgroundImage' = "error"
    /\ UNCHANGED <<fields, preview, request>>

\* 'input' on the screen-height field
ScreenHeightInput ==
    \E text \in HeightTexts :
        /\ text # fields.screenHeight
        /\ fields' = [fields EXCEPT !.screenHeight = text]
        /\ preview' = updatePreview(fields', phoneBackgroundImage)
        /\ UNCHANGED <<phoneBackgroundImage, request>>

\* 'input' on the top-boundary-percent field
TopPercentInput ==
    \E text \in PercentTexts :
        /\ text # fields.topPercent
        /\ fields' = [fields EXCEPT !.topPercent = text]
        /\ preview' = updatePreview(fields', phoneBackgroundImage)
        /\ UNCHANGED <<phoneBackgroundImage, request>>

\* 'input' on the bottom-boundary-percent field
BottomPercentInput ==
    \E text \in PercentTexts :
        /\ text # fields.bottomPercent
        /\ fields' = [fields EXCEPT !.bottomPercent = text]
        /\ preview' = updatePreview(fields', phoneBackgroundImage)
        /\ UNCHANGED <<phoneBackgroundImage, request>>

\* handlePreview / handleSubmit up to the await in fetchWallpaper
fetchWallpaper ==
    /\ request' = fetchWallpaperParams(fields)
    /\ UNCHANGED <<fields, phoneBackgroundImage, preview>>

----------------------------------------------------------------------------
(* The wrapText harness: one call of wrapText on arguments drawn from      *)
(* bounded sets.                                                           *)

Alphabet   == {"a", "W", " ", "\n"}
Texts      == UNION { [1..n -> Alphabet] : n \in 0..MaxLen }
WrapWidths == {5, 26, 34}
WrapFonts  == {20, 30}

idleWrapIn  == [text |-> <<>>, maxWidth |-> 0, font |-> 0]
idleWrapOut == [called |-> FALSE, lines |-> <<>>]

InitWrapIdle ==
    /\ wrapIn = idleWrapIn
    /\ wrapOut = idleWrapOut

InitWrap ==
    /\ wrapIn \in [text : Texts, maxWidth : WrapWidths, font : WrapFonts]
    /\ wrapOut = idleWrapOut

WrapCall ==
    /\ ~wrapOut.called
    /\ wrapOut' = [called |-> TRUE,
                   lines |-> wrapText(wrapIn.text, wrapIn.maxWidth, wrapIn.font)]
    /\ UNCHANGED wrapIn

----------------------------------------------------------------------------
(* Specifications *)

Init == InitEditor /\ InitGen /\ InitWrapIdle

Next ==
    \/ TopBoundaryInput    /\ UNCHANGED <<fetched, savedFor, genVars, wrapVars>>
    \/ BottomBoundaryInput /\ UNCHANGED <<fetched, savedFor, genVars, wrapVars>>
    \/ FontSizeInput       /\ UNCHANGED <<fetched, savedFor, genVars, wrapVars>>
    \/ LineSpacingInput    /\ UNCHANGED <<fetched, savedFor, genVars, wrapVars>>
    \/ FetchVerseStart     /\ UNCHANGED <<fetched, savedFor, genVars, wrapVars>>
    \/ FetchVerseResponse  /\ UNCHANGED <<fetched, savedFor, genVars, wrapVars>>
    \/ FetchVerseOk        /\ UNCHANGED <<fetched, savedFor, genVars, wrapVars>>
    \/ FetchVerseFail      /\ UNCHANGED <<fetched, savedFor, genVars, wrapVars>>
    \/ resetCanvas         /\ UNCHANGED <<fetched, savedFor, genVars, wrapVars>>

Spec == Init /\ [][Next]_vars

NextAsync ==
    \/ FontSizeInput            /\ UNCHANGED <<fetched, savedFor, genVars, wrapVars>>
    \/ FetchVerseStart          /\ UNCHANGED <<fetched, savedFor, genVars, wrapVars>>
    \/ FetchVerseResponse       /\ UNCHANGED <<fetched, savedFor, genVars, wrapVars>>
    \/ FetchVerseOk             /\ UNCHANGED <<fetched, savedFor, genVars, wrapVars>>
    \/ FetchVerseFail           /\ UNCHANGED <<fetched, savedFor, genVars, wrapVars>>
    \/ FetchAndDownloadStart    /\ UNCHANGED <<fetched, savedFor, genVars, wrapVars>>
    \/ FetchAndDownloadResponse /\ UNCHANGED <<fetched, savedFor, genVars, wrapVars>>
    \/ FetchAndDownloadOk       /\ UNCHANGED <<fetched, savedFor, genVars, wrapVars>>
    \/ FetchAndDownloadFail     /\ UNCHANGED <<fetched, savedFor, genVars, wrapVars>>
    \/ DownloadTimer            /\ UNCHANGED <<fetched, savedFor, genVars, wrapVars>>
    \/ ToBlobCallback           /\ UNCHANGED <<fetched, savedFor, genVars, wrapVars>>
    \/ resetCanvas              /\ UNCHANGED <<fetched, savedFor, genVars, wrapVars>>

SpecAsync == Init /\ [][NextAsync]_vars

\* the response fetchAndDownload has just stored
dataStored == [text |-> currentVerse', reference |-> currentReference']

\* the sequence without its element at position i
without(seq, i) == SubSeq(seq, 1, i - 1) \o SubSeq(seq, i + 1, Len(seq))

\* a step that neither defers nor finishes a download
noDownloadStep == fetched' = fetched /\ savedFor' = noData

\* SpecAsync with the history of the deferred downloads.  `fetched` holds the
\* responses of the calls whose toBlob callback is awaited, then those of the
\* calls whose timer is awaited, each group oldest first.
NextDownload ==
    \/ FontSizeInput            /\ noDownloadStep /\ UNCHANGED <<genVars, wrapVars>>
    \/ LineSpacingInput         /\ noDownloadStep /\ UNCHANGED <<genVars, wrapVars>>
    \/ FetchVerseStart          /\ noDownloadStep /\ UNCHANGED <<genVars, wrapVars>>
    \/ FetchVerseResponse       /\ noDownloadStep /\ UNCHANGED <<genVars, wrapVars>>
    \/ FetchVerseOk             /\ noDownloadStep /\ UNCHANGED <<genVars, wrapVars>>
    \/ FetchVerseFail           /\ noDownloadStep /\ UNCHANGED <<genVars, wrapVars>>
    \/ FetchAndDownloadStart    /\ noDownloadStep /\ UNCHANGED <<genVars, wrapVars>>
    \/ FetchAndDownloadResponse /\ noDownloadStep /\ UNCHANGED <<genVars, wrapVars>>
    \/ /\ FetchAndDownloadOk
       /\ fetched' = Append(fetched, dataStored)
       /\ savedFor' = noData
       /\ UNCHANGED <<genVars, wrapVars>>
    \/ FetchAndDownloadFail     /\ noDownloadStep /\ UNCHANGED <<genVars, wrapVars>>
    \/ /\ DownloadTimer
       /\ IF saved'.outcome = "alert"
          THEN /\ fetched' = without(fetched, Len(blobs) + 1)
               /\ savedFor' = fetched[Len(blobs) + 1]
          ELSE noDownloadStep
       /\ UNCHANGED <<genVars, wrapVars>>
    \/ /\ ToBlobCallback
       /\ fetched' = Tail(fetched)
       /\ savedFor' = Head(fetched)
       /\ UNCHANGED <<genVars, wrapVars>>
    \/ resetCanvas              /\ noDownloadStep /\ UNCHANGED <<genVars, wrapVars>>

SpecDownload == Init /\ [][NextDownload]_vars

NextGen ==
    \/ ImageOnload        /\ UNCHANGED <<editorVars, wrapVars>>
    \/ ImageOnerror       /\ UNCHANGED <<editorVars, wrapVars>>
    \/ ScreenHeightInput  /\ UNCHANGED <<editorVars, wrapVars>>
    \/ TopPercentInput    /\ UNCHANGED <<editorVars, wrapVars>>
    \/ BottomPercentInput /\ UNCHANGED <<editorVars, wrapVars>>
    \/ fetchWallpaper     /\ UNCHANGED <<editorVars, wrapVars>>

SpecGen == Init /\ [][NextGen]_vars

InitWrapSpec == InitEditor /\ InitGen /\ InitWrap

NextWrap == WrapCall /\ UNCHANGED <<editorVars, genVars>>

SpecWrap == InitWrapSpec /\ [][NextWrap]_vars

----------------------------------------------------------------------------
(* Properties of renderCanvas, checked under Spec *)

rendered == canvas.kind = "verse"

\* the candidate sizes the loop can test, starting from the slider's size
candidates(initial) ==
    {c \in (minFontSize + 1)..initial : (initial - c) % fontStep = 0}

\* total content height of the verse wrapped and measured at `font` (tenths of a pixel)
totalAt(verse, font, lineSpacing) ==
    verseHeightOf(measureAg(font), Len(wrapText(verse, actualWidth - margin * 2, font)),
                  lineSpacing)
      + 10 * spaceBetween + measureAg(font)

candidateFits(c) ==
    totalAt(canvas.req.verse, c, canvas.req.lineSpacing) <= 10 * canvas.availableHeight

\* C1: in every render of a non-empty verse the font size used for drawing
\* is at least 20 and at most the size read from the slider.
C1_FontSizeInRange ==
    rendered => /\ minFontSize <= canvas.fontSize
                /\ canvas.fontSize <= canvas.req.fontSize

\* C2: when no candidate size fits the available height, the loop ends with
\* the font size exactly 20 and the layout in the overflow state (the loop
\* was not left by its break), and the drawing is made.
C2_OverflowEndsAtMinimum ==
    (rendered /\ \A c \in candidates(canvas.req.fontSize) : ~candidateFits(c))
        => /\ canvas.fontSize = minFontSize
           /\ ~canvas.fit

\* C4: when a size is accepted because the content fits, the midpoint of
\* the drawn block, from startY to the bottom of the reference line, is
\* within one pixel of the midpoint of the band [topBoundary, bottomBoundary].
C4_CenteredInBand ==
    (rendered /\ canvas.fit) =>
        LET blockTop    == Val(canvas.startY)
            blockBottom == Val(canvas.verseEndY) + 10 * spaceBetween
                             + Val(canvas.referenceHeight)
            twiceDiff   == (blockTop + blockBottom)
                             - 10 * (canvas.topBoundary + canvas.bottomBoundary)
        IN  /\ blockBottom - blockTop = Val(canvas.totalContentHeight)
            /\ -20 <= twiceDiff /\ twiceDiff <= 20

C4_Witness ==
    /\ rendered /\ canvas.fit
    /\ canvas.fontSize < canvas.req.fontSize
    /\ Len(canvas.lines) >= 2
    /\ (10 * canvas.availableHeight - Val(canvas.totalContentHeight)) % 20 # 0

\* C5: in a render of a non-empty verse whose line height was measured and
\* is positive, with a line spacing above 0, the Y positions of the verse
\* lines increase strictly in line order and the reference line, when
\* drawn, is strictly below the last verse line.
C5_StrictlyIncreasingY ==
    (/\ rendered
     /\ IsNum(canvas.actualLineHeight) /\ Val(canvas.actualLineHeight) > 0
     /\ canvas.req.lineSpacing > 0) =>
        /\ Len(canvas.ys) = Len(canvas.lines)
        /\ \A i \in 1..Len(canvas.ys) : IsNum(canvas.ys[i])
        /\ \A i \in 1..(Len(canvas.ys) - 1) : Val(canvas.ys[i]) < Val(canvas.ys[i + 1])
        /\ (canvas.referenceDrawn /\ canvas.ys # <<>>) =>
               /\ IsNum(canvas.referenceY)
               /\ Val(canvas.ys[Len(canvas.ys)]) < Val(canvas.referenceY)

C5_Witness ==
    /\ rendered
    /\ IsNum(canvas.actualLineHeight)
    /\ Len(canvas.ys) >= 2
    /\ canvas.referenceDrawn
    /\ canvas.req.lineSpacing = 10

\* what renderCanvas reads, as the object holds it now
currentRequest ==
    [verse |-> currentVerse, reference |-> currentReference,
     topBoundary |-> controls.topBoundary, bottomBoundary |-> controls.bottomBoundary,
     fontSize |-> controls.fontSize, lineSpacing |-> controls.lineSpacing]

\* C6: renderCanvas is deterministic and leaves what it reads unchanged: a
\* call that reads the same verse, reference, slider and boundary values as
\* the call before it draws the same font size, lines and Y positions, and
\* after every call the verse, the reference and the control values are
\* those the call read.
C6_DeterministicIdempotent ==
    /\ [](canvas.req = currentRequest)
    /\ [][canvas'.req = canvas.req => canvas' = canvas]_vars

C6_Witness ==
    /\ rendered
    /\ rerender
    /\ canvas.fontSize < canvas.req.fontSize

\* C7: a size accepted as fitting is the largest candidate initial,
\* initial-2, ... that fits: it fits, and every larger candidate does not.
C7_LargestFittingCandidate ==
    (rendered /\ canvas.fit) =>
        /\ canvas.fontSize \in candidates(canvas.req.fontSize)
        /\ candidateFits(canvas.fontSize)
        /\ \A c \in candidates(canvas.req.fontSize) :
               c > canvas.fontSize => ~candidateFits(c)

C7_Witness ==
    /\ rendered /\ canvas.fit
    /\ canvas.fontSize + 2 * fontStep <= canvas.req.fontSize

\* C9 as stated: for a canvas 2340 high, top 38% and bottom 31%, the band is
\* [889, 1624], 735 pixels high.
C9_BandAsStated ==
    (rendered /\ canvas.req.topBoundary = 380 /\ canvas.req.bottomBoundary = 310) =>
        /\ canvas.topBoundary = 889
        /\ canvas.bottomBoundary = 1624
        /\ canvas.bottomBoundary - canvas.topBoundary = 735

\* C9 amended: for a canvas 2340 high, top 38% and bottom 31%, the band is
\* [889, 1615], 726 pixels high.
C9_BandScenarioA ==
    (rendered /\ canvas.req.topBoundary = 380 /\ canvas.req.bottomBoundary = 310) =>
        /\ canvas.topBoundary = 889
        /\ canvas.bottomBoundary = 1615
        /\ canvas.bottomBoundary - canvas.topBoundary = 726

C9_Witness ==
    /\ rendered
    /\ canvas.req.topBoundary = 380 /\ canvas.req.bottomBoundary = 310
    /\ canvas.fit

\* C14: in every render of a non-empty verse, also one whose slider value is
\* 20 or less so that the loop body never runs, the line height and the
\* total content height are numbers before startY is computed, and startY
\* and the Y position of every line drawn are numbers.
C14_PositionsDefined ==
    rendered =>
        /\ IsNum(canvas.actualLineHeight)
        /\ IsNum(canvas.totalContentHeight)
        /\ IsNum(canvas.startY)
        /\ \A i \in 1..Len(canvas.ys) : IsNum(canvas.ys[i])
        /\ canvas.referenceDrawn => IsNum(canvas.referenceY)

\* C15: in every render whose loop ran, the lines drawn are wrapText of the
\* verse at the font size used for drawing, and the line height and the
\* total content height that position them are those of that size, also
\* when the loop ends without a fit.
C15_LinesOfFinalSize ==
    (rendered /\ canvas.iterations > 0) =>
        /\ canvas.wrappedAt = canvas.fontSize
        /\ canvas.lines = wrapText(canvas.req.verse, actualWidth - margin * 2, canvas.fontSize)
        /\ canvas.actualLineHeight = Num(measureAg(canvas.fontSize))
        /\ canvas.totalContentHeight =
               Num(totalAt(canvas.req.verse, canvas.fontSize, canvas.req.lineSpacing))

\* a render of n >= 2 lines whose line height was measured
measuredLines ==
    /\ rendered
    /\ IsNum(canvas.actualLineHeight)
    /\ Len(canvas.ys) >= 2
    /\ \A i \in 1..Len(canvas.ys) : IsNum(canvas.ys[i])

\* lineHeight * lineSpacingMultiplier of the render (tenths of a pixel)
spacedLineHeight == (Val(canvas.actualLineHeight) * canvas.req.lineSpacing) \div 10

\* the Y advance from line i to line i + 1
stepAfter(i) == Val(canvas.ys[i + 1]) - Val(canvas.ys[i])

\* C16 as stated: the advance is lineHeight * lineSpacingMultiplier between
\* two non-final lines and lineHeight, without the multiplier, for the step
\* onto the last line.
C16_AdvanceAsStated ==
    measuredLines =>
        LET n == Len(canvas.ys)
        IN  /\ \A i \in 1..(n - 2) : stepAfter(i) = spacedLineHeight
            /\ stepAfter(n - 1) = Val(canvas.actualLineHeight)

\* C16 amended: the advance from each line to the next is
\* lineHeight * lineSpacingMultiplier, the step onto the last line included;
\* lineHeight without the multiplier is the advance after the last line.
C16_AdvanceBetweenLines ==
    measuredLines =>
        LET n == Len(canvas.ys)
        IN  /\ \A i \in 1..(n - 1) : stepAfter(i) = spacedLineHeight
            /\ IsNum(canvas.verseEndY)
            /\ Val(canvas.verseEndY) - Val(canvas.ys[n]) = Val(canvas.actualLineHeight)

C16_Witness ==
    /\ measuredLines
    /\ Len(canvas.ys) >= 3
    /\ canvas.req.lineSpacing = 14

\* the most iterations the loop can make from `initial`
maxIterations(initial) ==
    IF initial > minFontSize
    THEN (initial - minFontSize + fontStep - 1) \div fontStep
    ELSE 0

\* C17 as stated: from an initial size of at least 20 the loop makes at most
\* (initial - 20) / 2 iterations.
C17_IterationsAsStated ==
    (rendered /\ canvas.req.fontSize >= minFontSize) =>
        fontStep * canvas.iterations <= canvas.req.fontSize - minFontSize

\* C17 amended: the loop ends, after at most (initial - 20) / 2 iterations
\* rounded up, and after none when the initial size is 20 or less.
C17_IterationsBounded ==
    rendered => canvas.iterations <= maxIterations(canvas.req.fontSize)

C17_Witness ==
    /\ rendered /\ ~canvas.fit
    /\ canvas.req.fontSize % fontStep = 1
    /\ canvas.iterations >= 1
    /\ canvas.iterations = maxIterations(canvas.req.fontSize)

----------------------------------------------------------------------------
(* Properties of wrapText, checked under SpecWrap *)

\* a line that is one word of text.split(' '): it holds no separator
singleWord(line) == \A i \in 1..Len(line) : line[i] # " "

\* C3: every line wrapText returns measures at most maxWidth at the font in
\* force, except a line that is a single word, which may be wider.
C3_LinesWithinWidth ==
    wrapOut.called =>
        \A k \in 1..Len(wrapOut.lines) :
            \/ measureText(wrapOut.lines[k], wrapIn.font) <= 10 * wrapIn.maxWidth
            \/ singleWord(wrapOut.lines[k])

C3_Witness ==
    /\ wrapOut.called
    /\ Len(wrapOut.lines) >= 2
    /\ \E k \in 1..Len(wrapOut.lines) :
           /\ measureText(wrapOut.lines[k], wrapIn.font) > 10 * wrapIn.maxWidth
           /\ singleWord(wrapOut.lines[k])
    /\ \E k \in 1..Len(wrapOut.lines) :
           /\ ~singleWord(wrapOut.lines[k])
           /\ measureText(wrapOut.lines[k], wrapIn.font) <= 10 * wrapIn.maxWidth

\* the first word of a line: its characters up to the first space
RECURSIVE firstWord(_)
firstWord(line) ==
    IF line = <<>> \/ Head(line) = " " THEN <<>>
    ELSE <<Head(line)>> \o firstWord(Tail(line))

\* C18: wrapText breaks only on strict excess: every line but the last,
\* followed by one space and the first word of the next line, measures
\* strictly more than maxWidth, so a word that makes the width exactly
\* maxWidth stays on the line; and a line of more than one word measures at
\* most maxWidth, so a break is made whenever the width is exceeded.
C18_GreedyStrictExcess ==
    wrapOut.called =>
        /\ \A k \in 1..(Len(wrapOut.lines) - 1) :
               measureText(wrapOut.lines[k] \o <<" ">> \o firstWord(wrapOut.lines[k + 1]),
                           wrapIn.font) > 10 * wrapIn.maxWidth
        /\ \A k \in 1..Len(wrapOut.lines) :
               ~singleWord(wrapOut.lines[k]) =>
                   measureText(wrapOut.lines[k], wrapIn.font) <= 10 * wrapIn.maxWidth

\* a line of two words that is exactly maxWidth wide, followed by another line
C18_Witness ==
    /\ wrapOut.called
    /\ Len(wrapOut.lines) >= 2
    /\ \E k \in 1..(Len(wrapOut.lines) - 1) :
           /\ ~singleWord(wrapOut.lines[k])
           /\ wrapOut.lines[k][Len(wrapOut.lines[k])] # " "
           /\ measureText(wrapOut.lines[k], wrapIn.font) = 10 * wrapIn.maxWidth

\* the whitespace characters of the texts
isWhitespace(c) == c \in {" ", "\n"}

\* the whitespace-separated words of a text, in order
RECURSIVE wordsFrom(_, _, _)
wordsFrom(text, i, word) ==
    IF i > Len(text) THEN (IF word # <<>> THEN <<word>> ELSE <<>>)
    ELSE IF isWhitespace(text[i])
         THEN (IF word # <<>> THEN <<word>> ELSE <<>>) \o wordsFrom(text, i + 1, <<>>)
         ELSE wordsFrom(text, i + 1, Append(word, text[i]))

wordsOfText(text) == wordsFrom(text, 1, <<>>)

\* words joined by one space
RECURSIVE joinWords(_)
joinWords(words) ==
    IF words = <<>> THEN <<>>
    ELSE IF Len(words) = 1 THEN words[1]
    ELSE words[1] \o <<" ">> \o joinWords(Tail(words))

\* the words of all the lines, in order
RECURSIVE wordsOfLines(_)
wordsOfLines(lines) ==
    IF lines = <<>> THEN <<>> ELSE wordsOfText(Head(lines)) \o wordsOfLines(Tail(lines))

\* C19: for every text, the words of the returned lines read in order are
\* the whitespace-separated words of the text, every line is its words
\* joined by one space (it holds no other whitespace), and no line is empty.
C19_SplitsOnWhitespace ==
    wrapOut.called =>
        /\ wordsOfLines(wrapOut.lines) = wordsOfText(wrapIn.text)
        /\ \A k \in 1..Len(wrapOut.lines) :
               /\ wrapOut.lines[k] # <<>>
               /\ wrapOut.lines[k] = joinWords(wordsOfText(wrapOut.lines[k]))

----------------------------------------------------------------------------
(* Properties of the band computations, checked under SpecGen *)

numericRequest ==
    /\ request.sent
    /\ IsNum(request.screen_height)
    /\ IsNum(request.top_boundary_percent)
    /\ IsNum(request.bottom_boundary_percent)

\* canvasHeight * percent / 100 ends in .5 (percent in tenths)
endsInHalf(canvasHeight, percent) == (canvasHeight * percent) % 1000 = 500

prescribed(x, low, high, fallback) ==
    IF IsNum(x) /\ low <= Val(x) /\ Val(x) <= high THEN Val(x) ELSE fallback

\* C10: wherever the band is computed, a non-numeric or out-of-range percent
\* or height field is replaced by its default (top 31%, bottom 38%, height
\* 2340) and a numeric field in range, 0 included, is used as entered.
C10_DefaultsSubstituted ==
    /\ preview.shown =>
          /\ preview.topPercentValue = prescribed(parseFloat(fields.topPercent), 0, 1000, 310)
          /\ preview.bottomPercentValue =
                 prescribed(parseFloat(fields.bottomPercent), 0, 1000, 380)
          /\ preview.screenHeight = prescribed(parseInt(fields.screenHeight), 1, 100000, 2340)
    /\ request.sent =>
          /\ request.top_boundary_percent =
                 Num(prescribed(parseFloat(request.fields.topPercent), 0, 1000, 310))
          /\ request.bottom_boundary_percent =
                 Num(prescribed(parseFloat(request.fields.bottomPercent), 0, 1000, 380))
          /\ request.screen_height =
                 Num(prescribed(parseInt(request.fields.screenHeight), 1, 100000, 2340))

\* C11: while the background image has not finished loading or has failed
\* to load, an update of the preview is a no-op: whatever the preview shows
\* was drawn with the image loaded, and it is a complete frame.
C11_NoDrawingUntilReady ==
    preview.shown => /\ preview.background = "loaded"
                     /\ preview.frame = "background, band, text"

\* C12: for the same three field values, from which fetchWallpaper gets
\* three numbers, the band the preview shows has the top and bottom pixel
\* boundaries of the band fetchWallpaper computes for the final image.
C12_PreviewBandIsFinalBand ==
    (preview.shown /\ numericRequest /\ request.fields = fields) =>
        /\ request.top_boundary = Num(preview.topText)
        /\ request.bottom_boundary = Num(preview.bottomText)

----------------------------------------------------------------------------
(* Properties of the asynchronous calls, checked under SpecAsync *)

\* a verse and a reference stored by one response or by one reset
writtenTogether(verse, reference) ==
    \/ verse = <<>> /\ reference = ""
    \/ \E data \in Responses : verse = data.text /\ reference = data.reference

\* C13: whatever the order in which the suspended calls resume, every render
\* read a verse and a reference that one response or one reset stored
\* together, and the editor never holds the verse of one with the reference
\* of another.
C13_RenderReadsOnePair ==
    /\ writtenTogether(canvas.req.verse, canvas.req.reference)
    /\ writtenTogether(currentVerse, currentReference)

C13_Witness ==
    /\ rendered /\ canvas.fit
    /\ overlapped
    /\ canvas.req.reference # ""
    /\ inFlight > 0 \/ downloadCall # "idle"

\* a step in which fetchVerse or fetchAndDownload handles its response
responseHandled ==
    \/ pending'.json < pending.json
    \/ downloadCall = "json" /\ downloadCall' = "idle"

\* C20: every response that carries a font-size hint h > 0, and so sets the
\* slider, leaves it with the range [max(20, round(0.5 * h)), round(2 * h)],
\* the range not empty, and its value h inside the range.
C20_SliderConsistentAfterFetch ==
    [][(responseHandled /\ controls' # controls) =>
          LET h        == controls'.fontSize
              minSize  == Val(controls'.fontSizeMin)
              maxSize  == Val(controls'.fontSizeMax)
          IN  /\ IsNum(controls'.fontSizeMin) /\ IsNum(controls'.fontSizeMax)
              /\ minSize = (IF round(h, 2) > 20 THEN round(h, 2) ELSE 20)
              /\ maxSize = round(2 * h, 1)
              /\ minSize <= maxSize
              /\ minSize <= h /\ h <= maxSize]_vars

\* the values the page starts with, the font slider's range included
layoutDefaults ==
    /\ controls = defaultControls
    /\ currentVerse = <<>>
    /\ currentReference = ""

\* C21: from the return of resetCanvas until the next user action, whatever
\* fetches and slider changes came before, every value that influences the
\* layout is the initial default (top boundary 38, bottom boundary 31, font
\* size 64 in the slider's original range, line spacing 1.4, no verse and no
\* reference) and the canvas shows the placeholder.
C21_ResetRestoresDefaults ==
    sinceReset => /\ layoutDefaults
                  /\ canvas.kind = "placeholder"

----------------------------------------------------------------------------
(* Property of the deferred download, checked under SpecDownload *)

\* C22: the download a fetchAndDownload call defers always happens, and the
\* image saved and the name of the file are those of the verse and the
\* reference returned to that call, whatever reset, fetchVerse response or
\* slider event came between the call's render and the download.
C22_DownloadIsOfFetchedVerse ==
    /\ saved.outcome # "alert"
    /\ saved.outcome = "file" =>
          /\ saved.image = [verse |-> savedFor.text, reference |-> savedFor.reference]
          /\ saved.name = fileNameOf(savedFor.reference)

====
